---- MODULE Spec2Model ----
(***************************************************************************)
(* State-machine model of transport/websocket.go: the WebsocketTransport   *)
(* configuration, the two connection-establishment entry points (Connect,  *)
(* HandleConnection) and the WebsocketConnection operations (GetMessage,   *)
(* WriteMessage, Close, PingParams).                                       *)
(*                                                                         *)
(* Two processes are modelled, a dialling "client" and an accepting        *)
(* "server".  The gorilla/websocket socket and net/http are external: they *)
(* appear as the outcomes their calls can produce (a frame, an error).     *)
(* Durations are counted in seconds.  A Go string and a []byte are both    *)
(* sequences of bytes.                                                     *)
(***************************************************************************)
EXTENDS Integers, Sequences, FiniteSets, TLC

VARIABLES
    cfg,        \* [Transports -> WebsocketTransport]: the heap of configs
    dial,       \* the client's Connect call: its phase and its receiver
    conn,       \* [Ends -> WebsocketConnection]: socket state, transport ref
    inq,        \* [Ends -> Seq(Frame)]: frames on the wire towards each end
    reader,     \* [Ends -> ...]: the GetMessage call of each end
    writer,     \* [Ends -> ...]: the WriteMessage call of each end
    deadline,   \* [Ends -> [read, write]]: the socket's deadlines
    now,        \* time.Now(), in seconds
    calls,      \* number of calls started on the connections
    last        \* the step taken last: what it observed and returned

vars == <<cfg, dial, conn, inq, reader, writer, deadline, now, calls, last>>

----------------------------------------------------------------------------
(* Bounds of the model *)

MaxQueue == 1       \* frames in flight towards one end
MaxTime  == 2       \* the clock stops here
MaxCalls == 2       \* calls started on the connections in one run

----------------------------------------------------------------------------
(* Constants of the program *)

upgradeFailed == "Upgrade failed: "

WsDefaultPingInterval   == 30
WsDefaultPingTimeout    == 60
WsDefaultReceiveTimeout == 60
WsDefaultSendTimeout    == 60
WsDefaultBufferSize     == 1024 * 32

nil == "nil"

ErrorBinaryMessage     == "Binary messages are not supported"
ErrorBadBuffer         == "Buffer error"
ErrorPacketWrong       == "Wrong packet type error"
ErrorMethodNotAllowed  == "Method not allowed"
ErrorHttpUpgradeFailed == "Http upgrade failed"

SentinelErrors == {ErrorBinaryMessage, ErrorBadBuffer, ErrorPacketWrong,
                   ErrorMethodNotAllowed, ErrorHttpUpgradeFailed}

\* The identifiers HandleConnection returns; they are declared outside
\* websocket.go.
errMethodNotAllowed  == ErrorMethodNotAllowed
errHttpUpgradeFailed == ErrorHttpUpgradeFailed

\* websocket.TextMessage, websocket.BinaryMessage
TextMessage   == 1
BinaryMessage == 2

\* http.MethodGet, http.StatusServiceUnavailable
MethodGet == "GET"
StatusServiceUnavailable == 503

\* Errors of the layers below (net, gorilla/websocket)
ErrTimeout      == "i/o timeout"
ErrClosed       == "use of closed network connection"
ErrPeerClosed   == "websocket: close 1006 (abnormal closure)"
ErrUnexpectedEOF == "unexpected EOF"
ErrRefused      == "dial: connection refused"
ErrBadHandshake == "websocket: bad handshake"
ErrNotWebsocket == "websocket: not a websocket handshake"
ErrOrigin       == "websocket: request origin not allowed"

----------------------------------------------------------------------------
(* Data *)

Ends == {"client", "server"}
Peer(e) == IF e = "client" THEN "server" ELSE "client"

\* The transports on the heap: t1 is the client process's, t2 the server's
Transports == {"t1", "t2"}
ClientTransports == {"t1"}
ServerTransports == {"t2"}

\* Request methods the server may see
Methods == {"GET", "POST", "PUT"}

\* Text payloads: "", "h", "hi"
Payloads == {<<>>, <<104>>, <<104, 105>>}
\* Bodies of binary frames written at the socket layer
BinaryBodies == {<<>>, <<0, 255>>}

NoHeaders == "nil"
NoTLS == "nil"

\* No WebsocketTransport
NoTransport ==
    [made |-> "none", PingInterval |-> 0, PingTimeout |-> 0,
     ReceiveTimeout |-> 0, SendTimeout |-> 0, BufferSize |-> 0,
     Headers |-> NoHeaders, TLSClientConfig |-> NoTLS]

\* A WebsocketTransport built field by field by the caller
LiteralTransport ==
    [made |-> "literal", PingInterval |-> 1, PingTimeout |-> 2,
     ReceiveTimeout |-> 1, SendTimeout |-> 2, BufferSize |-> 1024,
     Headers |-> NoHeaders, TLSClientConfig |-> NoTLS]

\* A faulty variant: the ping timeout is taken from the ping interval
GeDefaultWebsocketTransportWrongPing ==
    [made |-> "default",
     PingInterval   |-> WsDefaultPingInterval,
     PingTimeout    |-> WsDefaultPingInterval,
     ReceiveTimeout |-> WsDefaultReceiveTimeout,
     SendTimeout    |-> WsDefaultSendTimeout,
     BufferSize     |-> WsDefaultBufferSize,
     Headers |-> NoHeaders, TLSClientConfig |-> NoTLS]

\* The value of the composite literal of GeDefaultWebsocketTransport
GeDefaultWebsocketTransport ==
    [made |-> "default",
     PingInterval   |-> WsDefaultPingInterval,
     PingTimeout    |-> WsDefaultPingTimeout,
     ReceiveTimeout |-> WsDefaultReceiveTimeout,
     SendTimeout    |-> WsDefaultSendTimeout,
     BufferSize     |-> WsDefaultBufferSize,
     Headers |-> NoHeaders, TLSClientConfig |-> NoTLS]

\* A frame on the wire.  by and msg are history: who wrote the frame, and
\* the string WriteMessage was given.
NoFrame == [type |-> 0, data |-> <<>>, by |-> "none", msg |-> <<>>]
Frame(type, data, by, msg) ==
    [type |-> type, data |-> data, by |-> by, msg |-> msg]

\* A connection that does not exist yet.  cfg0 is history: the config as it
\* was when the connection was created.
NoConn == [socket |-> "none", transport |-> "nil", cfg0 |-> NoTransport]

\* A faulty variant: the connection is bound to the server's transport,
\* not to the receiver
WebsocketConnectionMisbound(t) ==
    [socket |-> "open", transport |-> "t2", cfg0 |-> cfg["t2"]]

\* &WebsocketConnection{socket, t}
WebsocketConnection(t) ==
    [socket |-> "open", transport |-> t, cfg0 |-> cfg[t]]

\* A faulty variant: the last byte of the payload is dropped
BytesOfTruncated(message) == [i \in 1..(Len(message) - 1) |-> message[i]]

\* []byte(message) and string(data): a copy of the bytes, one by one
BytesOf(message) == [i \in 1..Len(message) |-> message[i]]
StringOf(data) == [i \in 1..Len(data) |-> data[i]]

\* The value of last after a step that returns nothing to a caller
Step == [op |-> "step", end |-> "nil"]

----------------------------------------------------------------------------
(* The initial state: the transports are constructed, nobody is connected *)

\* Each process has constructed its transport, with the default factory or
\* field by field
InitialTransports ==
    [Transports -> {GeDefaultWebsocketTransport, LiteralTransport}]

Init ==
    /\ cfg \in InitialTransports
    /\ dial = [phase |-> "idle", t |-> "nil"]
    /\ conn = [e \in Ends |-> NoConn]
    /\ inq = [e \in Ends |-> <<>>]
    /\ reader = [e \in Ends |-> [pc |-> "idle", frame |-> NoFrame]]
    /\ writer = [e \in Ends |-> [pc |-> "idle", message |-> <<>>, buf |-> <<>>,
                                log |-> <<>>]]
    /\ deadline = [e \in Ends |-> [read |-> 0, write |-> 0]]
    /\ now = 0
    /\ calls = 0
    /\ last = Step

----------------------------------------------------------------------------
(* Connect: the client side of the handshake *)

\* What Connect returns, given what dialer.Dial returned
ConnectRet(err) ==
    IF err # nil
    THEN [conn |-> nil, err |-> err]
    ELSE [conn |-> "client", err |-> nil]

\* Connect is called on transport t and dialer.Dial sends its request, or
\* fails at once
ConnectDial(t) ==
    /\ dial.phase = "idle"
    /\ conn["client"].socket = "none"
    /\ \/ /\ dial' = [phase |-> "requested", t |-> t]
          /\ last' = Step
       \/ /\ dial' = [phase |-> "idle", t |-> "nil"]
          /\ last' = [op |-> "Connect", end |-> "client", t |-> t,
                      dialErr |-> ErrRefused, ret |-> ConnectRet(ErrRefused)]
    /\ UNCHANGED <<cfg, conn, inq, reader, writer, deadline, now, calls>>

\* dialer.Dial returns with the server's answer, and Connect returns
ConnectReturn ==
    /\ dial.phase \in {"upgraded", "rejected"}
    /\ LET err == IF dial.phase = "upgraded" THEN nil ELSE ErrBadHandshake
       IN  /\ last' = [op |-> "Connect", end |-> "client", t |-> dial.t,
                       dialErr |-> err, ret |-> ConnectRet(err)]
           /\ conn' = IF ConnectRet(err).conn = nil THEN conn
                      ELSE [conn EXCEPT !["client"] = WebsocketConnection(dial.t)]
    /\ dial' = [phase |-> "idle", t |-> "nil"]
    /\ UNCHANGED <<cfg, inq, reader, writer, deadline, now, calls>>

----------------------------------------------------------------------------
(* HandleConnection: the server side of the handshake *)

\* The steps a call of HandleConnection can log
HcCall(t, r) ==
    [ev |-> "call", t |-> t, method |-> r.Method, buf |-> 0, status |-> 0,
     body |-> <<>>, conn |-> nil, err |-> nil]
\* (&websocket.Upgrader{ReadBufferSize: t.BufferSize,
\*                       WriteBufferSize: t.BufferSize}).Upgrade(w, r, nil)
HcUpgrade(t, err) ==
    [ev |-> "Upgrade", t |-> t, method |-> "", buf |-> cfg[t].BufferSize,
     status |-> 0, body |-> <<>>, conn |-> nil, err |-> err]
\* http.Error(w, body, code); a body a+b is the pair of its two parts
HttpError(body, code) ==
    [ev |-> "http.Error", t |-> "nil", method |-> "", buf |-> 0,
     status |-> code, body |-> body, conn |-> nil, err |-> nil]
HcReturn(c, err) ==
    [ev |-> "return", t |-> "nil", method |-> "", buf |-> 0, status |-> 0,
     body |-> <<>>, conn |-> c, err |-> err]

\* A faulty variant: only POST is turned away
MethodNotGetOnlyPost(r) == r.Method = "POST"

\* r.Method != http.MethodGet
MethodNotGet(r) == r.Method # MethodGet

\* A faulty variant: the rejection returns without writing a response
RejectMethodSilent == << HcReturn(nil, errMethodNotAllowed) >>

\* The branch taken for a request that is not a GET
RejectMethod ==
    << HttpError(<<upgradeFailed, errMethodNotAllowed>>,
                 StatusServiceUnavailable),
       HcReturn(nil, errMethodNotAllowed) >>

\* A faulty variant: the handshake error itself is returned
RejectUpgradeLeaking(err) ==
    << HttpError(<<upgradeFailed, err>>, StatusServiceUnavailable),
       HcReturn(nil, err) >>

\* The branch taken when Upgrade returned err # nil
RejectUpgrade(err) ==
    << HttpError(<<upgradeFailed, err>>, StatusServiceUnavailable),
       HcReturn(nil, errHttpUpgradeFailed) >>

\* The steps of HandleConnection(w, r) on transport t, when Upgrade (if it
\* is reached) returns upgradeErr
HandleConnectionLog(t, r, upgradeErr) ==
    IF MethodNotGet(r)
    THEN <<HcCall(t, r)>> \o RejectMethod
    ELSE IF upgradeErr # nil
         THEN <<HcCall(t, r), HcUpgrade(t, upgradeErr)>>
              \o RejectUpgrade(upgradeErr)
         ELSE <<HcCall(t, r), HcUpgrade(t, nil), HcReturn("server", nil)>>

\* The requests the server can be handed: the client's dial, or a request
\* of some other peer, which is no websocket handshake
Requests ==
    [Method : Methods, dial : {FALSE}]
    \cup (IF dial.phase = "requested"
          THEN {[Method |-> MethodGet, dial |-> TRUE]} ELSE {})

UpgradeOutcomes(r) ==
    IF r.dial THEN {nil, ErrOrigin} ELSE {ErrNotWebsocket}

\* HandleConnection(w, r) on transport t.  The model follows one server
\* connection: the server is handed requests until it holds it.
HandleConnection(t, r, upgradeErr) ==
    /\ conn["server"].socket = "none"
    /\ LET log == HandleConnectionLog(t, r, upgradeErr)
           ret == log[Len(log)]
       IN  /\ last' = [op |-> "HandleConnection", end |-> "server",
                       log |-> log]
           /\ conn' = IF ret.conn = nil THEN conn
                      ELSE [conn EXCEPT !["server"] = WebsocketConnection(t)]
           /\ dial' = IF ~r.dial THEN dial
                      ELSE IF ret.conn = nil
                           THEN [dial EXCEPT !.phase = "rejected"]
                           ELSE [dial EXCEPT !.phase = "upgraded"]
    /\ UNCHANGED <<cfg, inq, reader, writer, deadline, now, calls>>

----------------------------------------------------------------------------
(* GetMessage *)

Transport(e) == cfg[conn[e].transport]

\* A faulty variant: a call that fails closes the socket
SocketAfterReturnClosing(e, err) ==
    IF err # nil THEN "closed" ELSE conn[e].socket

\* The socket of e when GetMessage or WriteMessage returns err: neither
\* has a call of wsc.socket.Close(), on any path
SocketAfterReturn(e, err) == conn[e].socket

\* A faulty variant: the read deadline is a session timer, set by the
\* first call only
ReadDeadlineCumulative(e) ==
    IF deadline[e].read = 0
    THEN now + Transport(e).ReceiveTimeout
    ELSE deadline[e].read

\* wsc.socket.SetReadDeadline(time.Now().Add(wsc.transport.ReceiveTimeout))
ReadDeadline(e) == now + Transport(e).ReceiveTimeout

GetMessageCall(e) ==
    /\ conn[e].socket # "none"
    /\ reader[e].pc = "idle"
    /\ calls < MaxCalls
    /\ calls' = calls + 1
    /\ deadline' = [deadline EXCEPT ![e].read = ReadDeadline(e)]
    /\ reader' = [reader EXCEPT ![e] = [pc |-> "NextReader", frame |-> NoFrame]]
    /\ last' = Step
    /\ UNCHANGED <<cfg, dial, conn, inq, writer, now>>

\* What wsc.socket.NextReader() can return now; no outcome: it blocks.  A
\* closed socket fails the read, unless the frame had already been received
\* into the connection's read buffer, from which it is still served
NextReaderOutcomes(e) ==
    IF conn[e].socket = "closed"
    THEN {[err |-> ErrClosed, frame |-> NoFrame]}
            \cup IF inq[e] # <<>>
                 THEN {[err |-> nil, frame |-> Head(inq[e])]}
                 ELSE {}
    ELSE IF now >= deadline[e].read
    THEN {[err |-> ErrTimeout, frame |-> NoFrame]}
    ELSE IF inq[e] # <<>>
    THEN {[err |-> nil, frame |-> Head(inq[e])]}
    ELSE IF conn[Peer(e)].socket = "closed"
    THEN {[err |-> ErrPeerClosed, frame |-> NoFrame]}
    ELSE {}

\* What ioutil.ReadAll(reader) can return now; the body of a frame may be
\* in the read buffer already when the socket is closed
ReadAllOutcomes(e) ==
    IF conn[e].socket = "closed" THEN {nil, ErrClosed}
    ELSE IF now >= deadline[e].read THEN {ErrTimeout}
    ELSE {nil, ErrUnexpectedEOF}

\* A faulty variant: an error of NextReader is reported as a buffer error
NextReaderErrRetSentinel(err) == [message |-> <<>>, err |-> ErrorBadBuffer]

\* return "", err
NextReaderErrRet(err) == [message |-> <<>>, err |-> err]

\* A faulty variant: the frame type is not looked at
NotTextNever(msgType) == FALSE

\* msgType != websocket.TextMessage
NotText(msgType) == msgType # TextMessage

\* A faulty variant: a frame that is not text is reported as an empty one
BinaryRetPacketWrong == [message |-> <<>>, err |-> ErrorPacketWrong]

\* return "", ErrorBinaryMessage
BinaryRet == [message |-> <<>>, err |-> ErrorBinaryMessage]

\* A faulty variant: an error of ReadAll is passed on as it is
ReadAllErrRetPassed(err) == [message |-> <<>>, err |-> err]

\* return "", ErrorBadBuffer
ReadAllErrRet(err) == [message |-> <<>>, err |-> ErrorBadBuffer]

\* A faulty variant: the empty-message check is missing
IsEmptyNever(text) == FALSE

\* len(text) == 0
IsEmpty(text) == Len(text) = 0

\* From text := string(data) to the end of GetMessage
TextRet(data) ==
    LET text == StringOf(data)
    IN  IF IsEmpty(text)
        THEN [message |-> <<>>, err |-> ErrorPacketWrong]
        ELSE [message |-> text, err |-> nil]

\* GetMessage returns ret from the step it is at
GetMessageReturn(e, nextErr, frame, bodyErr, ret) ==
    /\ reader' = [reader EXCEPT ![e] = [pc |-> "idle", frame |-> NoFrame]]
    /\ conn' = [conn EXCEPT ![e].socket = SocketAfterReturn(e, ret.err)]
    /\ last' = [op |-> "GetMessage", end |-> e, at |-> reader[e].pc,
                nextErr |-> nextErr, frame |-> frame, bodyErr |-> bodyErr,
                ret |-> ret]

\* msgType, reader, err := wsc.socket.NextReader() and the two checks on
\* what it returned
GetMessageNextReader(e) ==
    /\ reader[e].pc = "NextReader"
    /\ \E o \in NextReaderOutcomes(e) :
          /\ inq' = IF o.err = nil THEN [inq EXCEPT ![e] = Tail(@)] ELSE inq
          /\ IF o.err # nil
             THEN GetMessageReturn(e, o.err, NoFrame, nil, NextReaderErrRet(o.err))
             ELSE IF NotText(o.frame.type)
             THEN GetMessageReturn(e, nil, o.frame, nil, BinaryRet)
             ELSE /\ reader' = [reader EXCEPT ![e] =
                                   [pc |-> "ReadAll", frame |-> o.frame]]
                  /\ last' = Step
                  /\ UNCHANGED conn
    /\ UNCHANGED <<cfg, dial, writer, deadline, now, calls>>

\* data, err := ioutil.ReadAll(reader) and the rest of GetMessage
GetMessageReadAll(e) ==
    /\ reader[e].pc = "ReadAll"
    /\ \E err \in ReadAllOutcomes(e) :
          IF err # nil
          THEN GetMessageReturn(e, nil, reader[e].frame, err, ReadAllErrRet(err))
          ELSE GetMessageReturn(e, nil, reader[e].frame, nil,
                                TextRet(reader[e].frame.data))
    /\ UNCHANGED <<cfg, dial, inq, writer, deadline, now, calls>>

----------------------------------------------------------------------------
(* WriteMessage *)

\* wsc.socket.SetWriteDeadline(time.Now().Add(wsc.transport.SendTimeout))
WriteDeadline(e) == now + Transport(e).SendTimeout

\* A faulty variant: one deadline for both directions, as SetDeadline sets
DeadlinesAfterWriteCallBoth(e) ==
    [read |-> WriteDeadline(e), write |-> WriteDeadline(e)]

\* SetWriteDeadline sets the write deadline of the socket and nothing else
DeadlinesAfterWriteCall(e) == [deadline[e] EXCEPT !.write = WriteDeadline(e)]

WriteMessageCall(e, message) ==
    /\ conn[e].socket # "none"
    /\ writer[e].pc = "idle"
    /\ calls < MaxCalls
    /\ calls' = calls + 1
    /\ deadline' = [deadline EXCEPT ![e] = DeadlinesAfterWriteCall(e)]
    /\ writer' = [writer EXCEPT ![e] =
                    [pc |-> "NextWriter", message |-> message, buf |-> <<>>,
                     log |-> <<>>]]
    /\ last' = Step
    /\ UNCHANGED <<cfg, dial, conn, inq, reader, now>>

\* What wsc.socket.NextWriter(websocket.TextMessage) can return now
NextWriterOutcomes(e) ==
    IF conn[e].socket = "closed" THEN {nil, ErrClosed} ELSE {nil}

\* What writer.Write([]byte(message)) can return now; the payload may only
\* be buffered until the frame is finalized
WriteOutcomes(e) ==
    IF conn[e].socket = "closed" THEN {nil, ErrClosed}
    ELSE IF now >= deadline[e].write THEN {nil, ErrTimeout}
    ELSE {nil}

\* What writer.Close() can return now, and whether the frame reaches the
\* wire; no outcome: it blocks
CloseOutcomes(e) ==
    IF conn[e].socket = "closed"
    THEN {[err |-> ErrClosed, sent |-> FALSE]}
    ELSE IF now >= deadline[e].write
    THEN {[err |-> ErrTimeout, sent |-> FALSE]}
    ELSE IF conn[Peer(e)].socket # "open"
    THEN {[err |-> ErrPeerClosed, sent |-> FALSE], [err |-> nil, sent |-> FALSE]}
    ELSE IF Len(inq[Peer(e)]) < MaxQueue
    THEN {[err |-> nil, sent |-> TRUE]}
    ELSE {}

\* A step of WriteMessage and the error the socket layer gave it
StepDone(e, err) == [step |-> writer[e].pc, err |-> err]

\* return err, after NextWriter and after Write
WriteErrRet(err) == err

\* A faulty variant: the error of the finalization is dropped
CloseRetDropped(err) == nil

\* if err := writer.Close(); err != nil { return err }; return nil
CloseRet(err) == IF err # nil THEN err ELSE nil

\* WriteMessage returns ret from the step it is at, which got stepErr; sent
\* tells whether the frame went on the wire
WriteMessageReturn(e, stepErr, sent, ret) ==
    /\ writer' = [writer EXCEPT ![e] =
                    [pc |-> "idle", message |-> <<>>, buf |-> <<>>,
                     log |-> <<>>]]
    /\ conn' = [conn EXCEPT ![e].socket = SocketAfterReturn(e, ret)]
    /\ last' = [op |-> "WriteMessage", end |-> e,
                message |-> writer[e].message,
                step |-> IF stepErr = nil THEN "done" ELSE writer[e].pc,
                log |-> Append(writer[e].log, StepDone(e, stepErr)),
                sent |-> sent, ret |-> ret]

\* writer, err := wsc.socket.NextWriter(websocket.TextMessage)
WriteMessageNextWriter(e) ==
    /\ writer[e].pc = "NextWriter"
    /\ \E err \in NextWriterOutcomes(e) :
          IF err # nil
          THEN WriteMessageReturn(e, err, FALSE, WriteErrRet(err))
          ELSE /\ writer' = [writer EXCEPT ![e].pc = "Write",
                                           ![e].log = Append(@, StepDone(e, nil))]
               /\ last' = Step
               /\ UNCHANGED conn
    /\ UNCHANGED <<cfg, dial, inq, reader, deadline, now, calls>>

\* writer.Write([]byte(message))
WriteMessageWrite(e) ==
    /\ writer[e].pc = "Write"
    /\ \E err \in WriteOutcomes(e) :
          IF err # nil
          THEN WriteMessageReturn(e, err, FALSE, WriteErrRet(err))
          ELSE /\ writer' = [writer EXCEPT ![e].pc = "Close",
                                           ![e].buf = BytesOf(writer[e].message),
                                           ![e].log = Append(@, StepDone(e, nil))]
               /\ last' = Step
               /\ UNCHANGED conn
    /\ UNCHANGED <<cfg, dial, inq, reader, deadline, now, calls>>

\* writer.Close(): the frame is finalized and flushed
WriteMessageClose(e) ==
    /\ writer[e].pc = "Close"
    /\ \E o \in CloseOutcomes(e) :
          /\ inq' = IF o.sent
                    THEN [inq EXCEPT ![Peer(e)] =
                            Append(@, Frame(TextMessage, writer[e].buf,
                                            "WriteMessage", writer[e].message))]
                    ELSE inq
          /\ WriteMessageReturn(e, o.err, o.sent, CloseRet(o.err))
    /\ UNCHANGED <<cfg, dial, reader, deadline, now, calls>>

----------------------------------------------------------------------------
(* Close and PingParams *)

\* A faulty variant: the socket handle is dropped, which leaves the
\* connection as it was before it was opened
SocketAfterCloseReleased(e) == "none"

\* wsc.socket.Close(): the socket is closed, whatever it was before
SocketAfterClose(e) == "closed"

\* func (wsc *WebsocketConnection) Close().  A Close of an open connection
\* shows in conn; a Close of a closed one would show nowhere, so it is
\* recorded in last and counted among the calls, which bounds its
\* repetitions
Close(e) ==
    /\ conn[e].socket # "none"
    /\ conn[e].socket = "closed" => calls < MaxCalls
    /\ calls' = IF conn[e].socket = "closed" THEN calls + 1 ELSE calls
    /\ conn' = [conn EXCEPT ![e].socket = SocketAfterClose(e)]
    /\ last' = IF conn[e].socket = "closed"
               THEN [op |-> "Close", end |-> e]
               ELSE Step
    /\ UNCHANGED <<cfg, dial, inq, reader, writer, deadline, now>>

\* A faulty variant: the two results are swapped
PingParamsRetSwapped(e) ==
    [interval |-> Transport(e).PingTimeout, timeout |-> Transport(e).PingInterval]

\* return wsc.transport.PingInterval, wsc.transport.PingTimeout
PingParamsRet(e) ==
    [interval |-> Transport(e).PingInterval, timeout |-> Transport(e).PingTimeout]

PingParams(e) ==
    /\ conn[e].socket # "none"
    /\ calls < MaxCalls
    /\ calls' = calls + 1
    /\ last' = [op |-> "PingParams", end |-> e, ret |-> PingParamsRet(e)]
    /\ UNCHANGED <<cfg, dial, conn, inq, reader, writer, deadline, now>>

----------------------------------------------------------------------------
(* The environment *)

\* The peer of e writes a binary frame at the socket layer
RawSend(e, body) ==
    /\ conn[e].socket = "open"
    /\ conn[Peer(e)].socket = "open"
    /\ Len(inq[e]) < MaxQueue
    /\ calls < MaxCalls
    /\ calls' = calls + 1
    /\ inq' = [inq EXCEPT ![e] = Append(@, Frame(BinaryMessage, body, "raw", <<>>))]
    /\ last' = Step
    /\ UNCHANGED <<cfg, dial, conn, reader, writer, deadline, now>>

\* Some call is in flight
InFlight == \E e \in Ends : reader[e].pc # "idle" \/ writer[e].pc # "idle"

\* A second passes; the clock is followed only while a call can observe it
Tick ==
    /\ now < MaxTime
    /\ InFlight
    /\ now' = now + 1
    /\ last' = Step
    /\ UNCHANGED <<cfg, dial, conn, inq, reader, writer, deadline, calls>>

----------------------------------------------------------------------------

Next ==
    \/ \E t \in ClientTransports : ConnectDial(t)
    \/ ConnectReturn
    \/ \E t \in ServerTransports : \E r \in Requests :
          \E u \in UpgradeOutcomes(r) : HandleConnection(t, r, u)
    \/ \E e \in Ends : GetMessageCall(e)
    \/ \E e \in Ends : GetMessageNextReader(e)
    \/ \E e \in Ends : GetMessageReadAll(e)
    \/ \E e \in Ends : \E m \in Payloads : WriteMessageCall(e, m)
    \/ \E e \in Ends : WriteMessageNextWriter(e)
    \/ \E e \in Ends : WriteMessageWrite(e)
    \/ \E e \in Ends : WriteMessageClose(e)
    \/ \E e \in Ends : Close(e)
    \/ \E e \in Ends : PingParams(e)
    \/ \E e \in Ends : \E b \in BinaryBodies : RawSend(e, b)
    \/ Tick

Spec == Init /\ [][Next]_vars

----------------------------------------------------------------------------
(* Properties *)

\* A GetMessage call has just returned at end e
GetMessageDone == last.op = "GetMessage"
\* ... and NextReader had handed it a frame
GotFrame == GetMessageDone /\ last.nextErr = nil
\* ... a text frame, whose body ReadAll read in full
GotText == GotFrame /\ last.frame.type = TextMessage /\ last.bodyErr = nil

\* A HandleConnection call has just returned
HandleConnectionDone == last.op = "HandleConnection"
HcMethod == last.log[1].method
HcRet == last.log[Len(last.log)]
HcEvents(ev) == {i \in 1..Len(last.log) : last.log[i].ev = ev}

\* C1: a frame that WriteMessage(P) put on the wire for a non-empty P,
\* once the socket layer has delivered it to the peer's GetMessage (the
\* frame obtained, its body read in full), comes back as exactly P with no
\* error.
C1_RoundTrip ==
    (GotText /\ last.frame.by = "WriteMessage" /\ Len(last.frame.msg) > 0)
        => last.ret = [message |-> last.frame.msg, err |-> nil]

C1_Witness ==
    /\ GotText
    /\ last.frame.by = "WriteMessage"
    /\ last.frame.msg = <<104, 105>>
    /\ last.ret = [message |-> <<104, 105>>, err |-> nil]

\* C2: when the frame handed to GetMessage is not a text frame, whatever
\* its body, GetMessage returns ErrorBinaryMessage and the empty string.
C2_BinaryRejected ==
    (GotFrame /\ last.frame.type # TextMessage)
        => last.ret = [message |-> <<>>, err |-> ErrorBinaryMessage]

C2_Witness ==
    /\ GotFrame
    /\ last.frame.type = BinaryMessage
    /\ Len(last.frame.data) = 2
    /\ last.ret.err = ErrorBinaryMessage

\* C3: when the frame handed to GetMessage is a text frame whose body,
\* read in full, has length zero, GetMessage returns ErrorPacketWrong and
\* never a successful empty message.
C3_EmptyRejected ==
    (GotText /\ Len(last.frame.data) = 0)
        => last.ret = [message |-> <<>>, err |-> ErrorPacketWrong]

C3_Witness ==
    /\ GotText
    /\ Len(last.frame.data) = 0
    /\ last.ret.err = ErrorPacketWrong

C5_NoHandshakeOnRejection ==
    (HandleConnectionDone /\ HcMethod # MethodGet)
        => /\ HcEvents("Upgrade") = {}
           /\ Len(last.log) = 3
           /\ last.log[2].ev = "http.Error"
           /\ last.log[2].status = StatusServiceUnavailable
           /\ last.log[2].body = <<"Upgrade failed: ", HcRet.err>>
           /\ HcRet.ev = "return"

C5_Witness ==
    /\ HandleConnectionDone
    /\ HcMethod = "PUT"
    /\ HcEvents("Upgrade") = {}
    /\ last.log[2].status = 503

C7_PingParamsStable ==
    /\ \A e \in Ends :
          conn[e].socket # "none" => cfg[conn[e].transport] = conn[e].cfg0
    /\ last.op = "PingParams"
          => last.ret = [interval |-> conn[last.end].cfg0.PingInterval,
                         timeout  |-> conn[last.end].cfg0.PingTimeout]

C7_Witness ==
    /\ last.op = "PingParams"
    /\ conn[last.end].socket = "closed"
    /\ deadline[last.end].read # 0
    /\ last.ret.interval # last.ret.timeout

\* C8: a config made by the default factory has pingInterval 30 s,
\* pingTimeout 60 s, receiveTimeout 60 s, sendTimeout 60 s, bufferSize
\* 32768, no headers and no TLS config, each time and for as long as it
\* lives.
C8_DefaultConfig ==
    \A t \in Transports :
        cfg[t].made = "default"
            => /\ cfg[t].PingInterval = 30
               /\ cfg[t].PingTimeout = 60
               /\ cfg[t].ReceiveTimeout = 60
               /\ cfg[t].SendTimeout = 60
               /\ cfg[t].BufferSize = 32768
               /\ cfg[t].Headers = NoHeaders
               /\ cfg[t].TLSClientConfig = NoTLS

C8_Witness ==
    /\ \A t \in Transports : cfg[t].made = "default"
    /\ \A e \in Ends : conn[e].socket = "closed"
    /\ calls = MaxCalls

\* C9 as claimed: every lower-level error of a GetMessage call, from
\* obtaining the frame or from reading its body, is what GetMessage returns.
C9_Original ==
    /\ (GetMessageDone /\ last.nextErr # nil) => last.ret.err = last.nextErr
    /\ (GetMessageDone /\ last.bodyErr # nil) => last.ret.err = last.bodyErr

\* C9 as amended: every error NextReader returns while obtaining the frame,
\* a passed deadline included, is returned by GetMessage as that same
\* error with an empty string, and is none of the transport's sentinels; an
\* error while the body is read is not passed on.
C9_NextReaderErrorUnchanged ==
    /\ (GetMessageDone /\ last.nextErr # nil)
          => /\ last.ret = [message |-> <<>>, err |-> last.nextErr]
             /\ last.ret.err \notin SentinelErrors
    /\ (GetMessageDone /\ last.bodyErr # nil) => last.ret.err # last.bodyErr

C9_Witness ==
    /\ GetMessageDone
    /\ last.nextErr = ErrTimeout
    /\ last.ret.err = ErrTimeout

\* C10: when GetMessage has obtained a text frame and the body cannot be
\* read in full, it returns ErrorBadBuffer and the empty string.
C10_BadBuffer ==
    (GotFrame /\ last.frame.type = TextMessage /\ last.bodyErr # nil)
        => last.ret = [message |-> <<>>, err |-> ErrorBadBuffer]

C10_Witness ==
    /\ GotFrame
    /\ last.frame.type = TextMessage
    /\ Len(last.frame.data) = 2
    /\ last.bodyErr = ErrUnexpectedEOF
    /\ last.ret.err = ErrorBadBuffer

\* A WriteMessage call has just returned
WriteMessageDone == last.op = "WriteMessage"
WriteSteps == <<"NextWriter", "Write", "Close">>

\* C11: WriteMessage takes its steps in the order NextWriter, Write,
\* Close; it stops at the first step that fails and returns that step's
\* error; it returns nil only when all three steps succeeded, so a failed
\* finalization after a good Write is an error, and a call that put no
\* frame on the wire because a step failed never returns nil.
C11_FirstFailureWins ==
    WriteMessageDone =>
        LET log == last.log
            n == Len(log)
        IN  /\ n \in 1..3
            /\ \A i \in 1..n : log[i].step = WriteSteps[i]
            /\ \A i \in 1..(n - 1) : log[i].err = nil
            /\ n < 3 => log[n].err # nil
            /\ last.ret = log[n].err
            /\ last.ret = nil <=> (n = 3 /\ \A i \in 1..3 : log[i].err = nil)
            /\ last.ret # nil => ~last.sent

C11_Witness ==
    /\ WriteMessageDone
    /\ Len(last.log) = 3
    /\ last.log[2].err = nil
    /\ last.log[3].err = ErrTimeout
    /\ last.ret = ErrTimeout
    /\ last.message = <<104, 105>>

\* A Connect call has just returned
ConnectDone == last.op = "Connect"

\* C12: Connect returns a connection or an error, never both and never
\* neither.  When the dial fails it returns no connection and the dial
\* error as it is; when the dial succeeds it returns no error and a
\* connection bound to the transport Connect was called on, whose
\* deadlines and PingParams come from that transport.
C12_ConnectResult ==
    ConnectDone =>
        /\ (last.ret.conn = nil) # (last.ret.err = nil)
        /\ last.dialErr # nil =>
              /\ last.ret = [conn |-> nil, err |-> last.dialErr]
              /\ conn["client"] = NoConn
        /\ last.dialErr = nil =>
              /\ last.ret = [conn |-> "client", err |-> nil]
              /\ conn["client"].socket = "open"
              /\ conn["client"].transport = last.t
              /\ conn["client"].cfg0 = cfg[last.t]
              /\ ReadDeadline("client") = now + cfg[last.t].ReceiveTimeout
              /\ WriteDeadline("client") = now + cfg[last.t].SendTimeout
              /\ PingParamsRet("client") =
                    [interval |-> cfg[last.t].PingInterval,
                     timeout  |-> cfg[last.t].PingTimeout]

C12_Witness ==
    /\ ConnectDone
    /\ last.dialErr = nil
    /\ last.ret.conn = "client"
    /\ cfg[last.t] = LiteralTransport
    /\ cfg["t2"] = GeDefaultWebsocketTransport

\* C12, the failing dial: the handshake was turned down by the server
C12_WitnessFailure ==
    /\ ConnectDone
    /\ last.dialErr = ErrBadHandshake
    /\ last.ret = [conn |-> nil, err |-> ErrBadHandshake]

\* A GetMessage or WriteMessage call has just returned an error
CallFailed ==
    \/ GetMessageDone /\ last.ret.err # nil
    \/ WriteMessageDone /\ last.ret # nil

\* A step of the GetMessage call, of the WriteMessage call of end e
ReaderStep(e) == reader'[e] # reader[e]
WriterStep(e) == writer'[e] # writer[e]

\* C13: a socket that is open stops being open only in a step of Close on
\* that connection; no step of GetMessage or WriteMessage, whatever error
\* it makes the call return, closes it.  After a failed call on an open
\* connection the connection is open and the same call can be started
\* again.
C13_OnlyCloseCloses ==
    /\ [][\A e \in Ends :
            conn[e].socket = "open" =>
                /\ conn'[e].socket # "open"
                      => (Close(e) /\ conn'[e].socket = "closed")
                /\ (ReaderStep(e) \/ WriterStep(e))
                      => conn'[e].socket = "open"]_vars
    /\ [](( /\ CallFailed
            /\ conn[last.end].socket = "open"
            /\ calls < MaxCalls )
          => IF GetMessageDone
             THEN ENABLED GetMessageCall(last.end)
             ELSE ENABLED (\E m \in Payloads : WriteMessageCall(last.end, m)))

C13_Witness ==
    /\ GetMessageDone
    /\ last.ret.err = ErrTimeout
    /\ conn[last.end].socket = "open"
    /\ calls < MaxCalls
    /\ ENABLED GetMessageCall(last.end)

\* C13, a failed write: the connection is open afterwards
C13_WitnessWrite ==
    /\ WriteMessageDone
    /\ last.ret = ErrTimeout
    /\ conn[last.end].socket = "open"

\* The step in which a GetMessage call, a WriteMessage call starts at e
ReadCallStep(e) == reader[e].pc = "idle" /\ reader'[e].pc = "NextReader"
WriteCallStep(e) == writer[e].pc = "idle" /\ writer'[e].pc = "NextWriter"

\* C14: every GetMessage call starts by setting the read deadline to the
\* time of the call plus ReceiveTimeout, every WriteMessage call by setting
\* the write deadline to the time of the call plus SendTimeout, whatever
\* the deadline was before and however much time earlier calls took; the
\* read deadline changes in no other step, nor does the write deadline, so
\* a read never moves the write deadline and a write never the read one.
C14_DeadlinePerCall ==
    [][\A e \in Ends :
        /\ ReadCallStep(e)
              => deadline'[e].read = now + conn[e].cfg0.ReceiveTimeout
        /\ WriteCallStep(e)
              => deadline'[e].write = now + conn[e].cfg0.SendTimeout
        /\ deadline'[e].read # deadline[e].read => ReadCallStep(e)
        /\ deadline'[e].write # deadline[e].write => WriteCallStep(e)]_vars

\* A second GetMessage call on a connection whose first one ran into its
\* deadline: the new deadline is counted from the time of the second call
C14_Witness ==
    \E e \in Ends :
        /\ calls = 2
        /\ reader[e].pc = "NextReader"
        /\ conn[e].socket = "open"
        /\ conn[e].cfg0.ReceiveTimeout = 1
        /\ now = 1
        /\ deadline[e] = [read |-> 2, write |-> 0]
        /\ deadline[Peer(e)] = [read |-> 0, write |-> 0]

\* C15: once Close has been called on a connection, every GetMessage and
\* every WriteMessage on it that was in flight then or is started later
\* returns an error, without a message and without reporting a successful
\* write, and a read in flight is not left blocked: it can return.
C15_CloseFailsAll ==
    /\ \A e \in Ends :
          (conn[e].socket = "closed" /\ reader[e].pc # "idle")
              => ENABLED (GetMessageNextReader(e) \/ GetMessageReadAll(e))
    /\ (GetMessageDone /\ conn[last.end].socket = "closed")
          => (last.ret.err # nil /\ last.ret.message = <<>>)
    /\ (WriteMessageDone /\ conn[last.end].socket = "closed")
          => (last.ret # nil /\ ~last.sent)

\* A Close call on a closed connection has just returned
CloseDone == last.op = "Close"

\* C16: a closed connection is closed in every later state, whatever is
\* called on it or on the other connection; every Close call leaves its
\* connection closed, and a Close call on a closed connection changes
\* nothing: not the connection, not its configuration, not the other
\* connection, no frame, no deadline, no call in flight.
C16_ClosedTerminal ==
    [][\A e \in Ends :
          /\ conn[e].socket = "closed" => conn'[e].socket = "closed"
          /\ Close(e) =>
                /\ conn'[e].socket = "closed"
                /\ conn[e].socket = "closed" =>
                      UNCHANGED <<cfg, dial, conn, inq, reader, writer,
                                  deadline, now>>]_vars

\* A second Close, on a connection that has a read in flight
C16_Witness ==
    /\ CloseDone
    /\ conn[last.end].socket = "closed"
    /\ reader[last.end].pc # "idle"

\* What the socket layer can answer to the call in flight of the reader, of
\* the writer of end e
ReaderView(e) == <<reader[e], deadline[e].read, inq[e],
                   NextReaderOutcomes(e), ReadAllOutcomes(e)>>
WriterView(e) == <<writer[e], deadline[e].write, inq[Peer(e)],
                   NextWriterOutcomes(e), WriteOutcomes(e), CloseOutcomes(e)>>

\* A step of the reader of a connection changes nothing the writer of the
\* same connection uses or can observe, and the other way round; neither
\* changes the connection object
ReaderWriterSeparate ==
    \A e \in Ends :
        /\ ReaderStep(e) => (WriterView(e)' = WriterView(e) /\ conn' = conn)
        /\ WriterStep(e) => (ReaderView(e)' = ReaderView(e) /\ conn' = conn)

\* The frames towards e are taken from the head, by a step of the reader of
\* e, which is handed that frame, and added at the tail; WriteMessage of
\* the peer adds a text frame with the bytes of the message it was called
\* with
InWriteOrder ==
    \A e \in Ends :
        \/ inq'[e] = inq[e]
        \/ /\ inq[e] # <<>>
           /\ inq'[e] = Tail(inq[e])
           /\ ReaderStep(e)
           /\ IF reader'[e].pc = "ReadAll"
              THEN reader'[e].frame = Head(inq[e])
              ELSE GetMessageDone' /\ last'.end = e /\ last'.frame = Head(inq[e])
        \/ /\ Len(inq'[e]) = Len(inq[e]) + 1
           /\ SubSeq(inq'[e], 1, Len(inq[e])) = inq[e]
           /\ LET f == inq'[e][Len(inq'[e])]
                  w == writer[Peer(e)]
              IN  f.by = "WriteMessage" =>
                    /\ WriterStep(Peer(e))
                    /\ f = Frame(TextMessage, BytesOf(w.message),
                                 "WriteMessage", w.message)

\* GetMessage has returned a frame of WriteMessage as the message written
ReceivedIntact == last.ret = [message |-> last.frame.msg, err |-> nil]

C18_CheckOrder ==
    GetMessageDone =>
        /\ IF last.nextErr # nil
           THEN /\ last.at = "NextReader"
                /\ last.frame = NoFrame
                /\ last.ret.err = last.nextErr
           ELSE IF last.frame.type # TextMessage
           THEN /\ last.at = "NextReader"
                /\ last.bodyErr = nil
                /\ last.ret.err = ErrorBinaryMessage
           ELSE IF last.bodyErr # nil
           THEN /\ last.at = "ReadAll"
                /\ last.ret.err = ErrorBadBuffer
           ELSE IF Len(last.frame.data) = 0
           THEN /\ last.at = "ReadAll"
                /\ last.ret.err = ErrorPacketWrong
           ELSE /\ last.at = "ReadAll"
                /\ last.ret.err = nil
        /\ last.ret.err # nil => last.ret.message = <<>>
        /\ last.ret.err = nil => Len(last.ret.message) > 0

\* A binary frame of length zero is answered ErrorBinaryMessage, its body
\* unread
C18_Witness ==
    /\ GotFrame
    /\ last.frame.type = BinaryMessage
    /\ last.frame.data = <<>>
    /\ last.at = "NextReader"
    /\ last.ret = [message |-> <<>>, err |-> ErrorBinaryMessage]

\* C18: a text frame of length zero whose body could not be read is
\* answered ErrorBadBuffer, not ErrorPacketWrong
C18_WitnessBody ==
    /\ GotFrame
    /\ last.frame.type = TextMessage
    /\ last.frame.data = <<>>
    /\ last.bodyErr # nil
    /\ last.ret = [message |-> <<>>, err |-> ErrorBadBuffer]

====
